---- MODULE Spec2Model ----
(***************************************************************************)
(* Model of bevy_mod_desync (src/lib.rs): the DesyncPlugin resources, the  *)
(* serializer registry, the two entity ordering strategies, the checksum   *)
(* pipeline calculate_crc and the Crc cell refreshed by update_crc.        *)
(*                                                                         *)
(* A world is a record.  Operations of the library and of its callers are  *)
(* operators from a world to a world, and every action applies one of them *)
(* to the world of the app.  A second replica, where a property compares   *)
(* two, is the world another app reaches by its own sequence of            *)
(* registrations and spawns (Replay).                                      *)
(***************************************************************************)
EXTENDS Integers, Sequences, FiniteSets

-----------------------------------------------------------------------------
(* Bounds of the model *)

\* entities the world may spawn
MaxEntities == 2
\* entities the world may spawn under SpecSetup
MaxSetupEntities == 3
\* field values are drawn from 0..MaxValue
MaxValue == 1

-----------------------------------------------------------------------------
(* Bit arithmetic on machine integers *)

RECURSIVE XorBits(_, _, _)
\* a ^ b on n-bit unsigned integers, bit by bit
XorBits(a, b, n) ==
    IF n = 0 THEN 0
    ELSE ((a + b) % 2) + 2 * XorBits(a \div 2, b \div 2, n - 1)

\* a ^ b on 4-bit unsigned integers, tabulated
XorNibble == [a \in 0..15 |-> [b \in 0..15 |-> XorBits(a, b, 4)]]

\* u8 ^ u8
Xor8(a, b) ==
    16 * XorNibble[a \div 16][b \div 16] + XorNibble[a % 16][b % 16]

\* u16 ^ u16
Xor16(a, b) == 256 * Xor8(a \div 256, b \div 256) + Xor8(a % 256, b % 256)

-----------------------------------------------------------------------------
(* crc::Crc::<u16>::new(&crc::CRC_16_IBM_SDLC): width 16, poly 0x1021,     *)
(* init 0xffff, refin, refout, xorout 0xffff.  Reflected, so the register  *)
(* shifts right and the polynomial is used bit-reversed (0x8408).          *)

CrcPolyReflected == 33800
CrcInit == 65535
CrcXorOut == 65535

RECURSIVE CrcShift(_, _)
\* k shift steps of the reflected register
CrcShift(c, k) ==
    IF k = 0 THEN c
    ELSE CrcShift(IF c % 2 = 1 THEN Xor16(c \div 2, CrcPolyReflected)
                               ELSE c \div 2,
                  k - 1)

\* the 256-entry lookup table of the algorithm
CrcTable == [i \in 0..255 |-> CrcShift(i, 8)]

RECURSIVE CrcUpdate(_, _)
\* the register after the bytes of `bytes`
CrcUpdate(c, bytes) ==
    IF bytes = <<>> THEN c
    ELSE CrcUpdate(Xor16(CrcTable[Xor8(c % 256, Head(bytes))], c \div 256),
                   Tail(bytes))

\* crc_algo.checksum(bytes)
checksum(bytes) == Xor16(CrcUpdate(CrcInit, bytes), CrcXorOut)


-----------------------------------------------------------------------------
(* Sequences and sets *)

\* the elements of a sequence
Range(s) == {s[i] : i \in 1..Len(s)}

RECURSIVE SortAsc(_)
\* the members of a finite set of integers in ascending order (Vec::sort)
SortAsc(S) ==
    IF S = {} THEN <<>>
    ELSE LET m == CHOOSE x \in S : \A y \in S : x <= y
         IN  <<m>> \o SortAsc(S \ {m})

RECURSIVE Concat(_)
\* the concatenation of a sequence of sequences
Concat(ss) == IF ss = <<>> THEN <<>> ELSE Head(ss) \o Concat(Tail(ss))

-----------------------------------------------------------------------------
(* Component types.  TrackDesync is the marker of the library; Foo is the  *)
(* tracked component of the tests; Bar stands for any second component     *)
(* type of the host application.                                           *)

TrackDesync == "TrackDesync"
Foo == "Foo"
Bar == "Bar"

\* the types a caller may hand to track_desync::<T>() (T: Component + Serialize)
SerializeTypes == {Foo, Bar}

\* field values
Values == 0..MaxValue

\* one element of a bundle handed to world.spawn
Item(ty, val) == [ty |-> ty, val |-> val]

-----------------------------------------------------------------------------
(* serde_json::to_string of a newtype struct over u64 (Foo(u64)): the      *)
(* decimal digits of the number, as ASCII bytes.                           *)

AsciiZero == 48

RECURSIVE to_string(_)
to_string(n) ==
    IF n < 10 THEN <<AsciiZero + n>>
    ELSE to_string(n \div 10) \o <<AsciiZero + (n % 10)>>

\* untyped_serialize::<T>(ptr): the JSON text of the value behind the pointer
untyped_serialize(val) == to_string(val)

-----------------------------------------------------------------------------
(* The world.  ComponentId, ArchetypeId and Entity are positions in the    *)
(* sequences `components`, `archetypes` and `entities`: each is handed out *)
(* in order of first use, which is the only property of the ids the        *)
(* library relies on.                                                      *)

\* Option<T>
None == <<>>
Some(x) == <<x>>

\* world.component_id::<T>(): the id of a type, 0 when it was never initialised
component_id(w, ty) ==
    IF ty \in Range(w.components)
    THEN CHOOSE i \in 1..Len(w.components) : w.components[i] = ty
    ELSE 0

\* world.init_component::<T>(): idempotent per type
init_component(w, ty) ==
    IF ty \in Range(w.components) THEN w
    ELSE [w EXCEPT !.components = Append(@, ty)]

\* world.get_entity(entity).is_some()
entity_exists(w, entity) == entity \in 1..Len(w.entities)

\* entity.archetype().components()
archetype_components(w, entity) == w.archetypes[w.entities[entity].archetype]

\* entity.contains::<TrackDesync>()
contains_track_desync(w, entity) ==
    component_id(w, TrackDesync) \in archetype_components(w, entity)

\* App::new().add_plugins(DesyncPlugin::default()): the resources
\* DesyncPluginData (empty registry, sort_entities_ids) and Crc(0), the
\* TrackDesync component initialised, the empty archetype, no entity
DesyncPlugin_build ==
    init_component(
        [components            |-> <<>>,
         serialize_fn_registry |-> {},
         entity_sort           |-> "sort_entities_ids",
         archetypes            |-> <<{}>>,
         entities              |-> <<>>,
         Crc                   |-> 0,
         EntityMap             |-> None],
        TrackDesync)

\* App::track_desync::<T>()
track_desync(w, ty) ==
    LET w1 == init_component(w, ty)
    IN  [w1 EXCEPT !.serialize_fn_registry = @ \cup {component_id(w1, ty)}]

\* tests::build_app()
build_app == track_desync(DesyncPlugin_build, Foo)

RECURSIVE init_bundle(_, _)
\* the components of a bundle are initialised in the order of the tuple
init_bundle(w, bundle) ==
    IF bundle = <<>> THEN w
    ELSE init_bundle(init_component(w, Head(bundle).ty), Tail(bundle))

\* world.spawn(bundle): the entity gets the next id and goes to the archetype
\* of exactly the bundle's components, created on first use
spawn(w, bundle) ==
    LET w1   == init_bundle(w, bundle)
        ids  == {component_id(w1, bundle[i].ty) : i \in 1..Len(bundle)}
        old  == {a \in 1..Len(w1.archetypes) : w1.archetypes[a] = ids}
        arch == IF old = {} THEN Len(w1.archetypes) + 1 ELSE CHOOSE a \in old : TRUE
        data == [c \in ids |->
                    LET i == CHOOSE i \in 1..Len(bundle) :
                                 component_id(w1, bundle[i].ty) = c
                    IN  bundle[i].val]
    IN  [w1 EXCEPT
            !.archetypes = IF old = {} THEN Append(@, ids) ELSE @,
            !.entities   = Append(@, [archetype |-> arch, data |-> data])]

\* *world.get_mut::<T>(entity).unwrap() = T(val)
set_component(w, entity, ty, val) ==
    [w EXCEPT !.entities[entity].data[component_id(w, ty)] = val]

\* world.insert_resource(EntityMap { entity_map })
insert_entity_map(w, m) == [w EXCEPT !.EntityMap = Some(m)]

\* world.resource_mut::<DesyncPluginData>().entity_sort = ...
set_entity_sort(w, strategy) == [w EXCEPT !.entity_sort = strategy]

-----------------------------------------------------------------------------
(* Results of operations that may panic (Option::unwrap, HashMap index)    *)

\* the operation returned val
Ok(val) == [ok |-> TRUE, val |-> val]
\* the operation panicked where it would have returned a sequence
PanicSeq == [ok |-> FALSE, val |-> <<>>]
\* the operation panicked where it would have returned a number
PanicNum == [ok |-> FALSE, val |-> 0]

-----------------------------------------------------------------------------
(* Entity ordering strategies *)

\* archetype.entities() of archetype a
archetype_entities(w, a) == {e \in 1..Len(w.entities) : w.entities[e].archetype = a}

\* sort_entities_ids, were it to order the tracked entities by the value of
\* their Foo and not by the ids the world gave them
sort_entities_by_value(w) ==
    LET n       == Len(w.entities) + 1
        foo     == component_id(w, Foo)
        tracked == {e \in 1..Len(w.entities) : contains_track_desync(w, e)}
        key(e)  == (IF foo \in archetype_components(w, e)
                    THEN w.entities[e].data[foo] ELSE 0) * n + e
        keys    == SortAsc({key(e) : e \in tracked})
    IN  [i \in 1..Len(keys) |-> keys[i] % n]

\* sort_entities_ids(world): the archetypes that contain TrackDesync by
\* archetype id, the entities of each by entity id
sort_entities_ids(w) ==
    LET track_desync_component_id == component_id(w, TrackDesync)
        archetypes == SortAsc({a \in 1..Len(w.archetypes) :
                                  track_desync_component_id \in w.archetypes[a]})
    IN  Concat([i \in 1..Len(archetypes) |->
                   SortAsc(archetype_entities(w, archetypes[i]))])

\* EntityMap::iter_entities(): the keys of the table
iter_entities(entity_map) == DOMAIN entity_map

\* EntityMap::map_entity(entity): entity_map.get(&entity).unwrap()
map_entity(entity_map, entity) == entity_map[entity]

\* sort_from_entity_map, were it to return the tracked entities in their own
\* order whatever from_self is
sort_from_entity_map_own_order(w, from_self) ==
    IF w.EntityMap = None THEN PanicSeq
    ELSE Ok(SortAsc({e \in 1..Len(w.entities) : contains_track_desync(w, e)}))

\* sort_from_entity_map::<EntityMap>(world, from_self)
sort_from_entity_map(w, from_self) ==
    IF w.EntityMap = None THEN PanicSeq
    ELSE LET entity_map == w.EntityMap[1]
             entities   == {e \in 1..Len(w.entities) : contains_track_desync(w, e)}
         IN  IF from_self
             THEN Ok(SortAsc(entities))
             ELSE LET keys == SortAsc(iter_entities(entity_map))
                  IN  Ok([i \in 1..Len(keys) |-> map_entity(entity_map, keys[i])])

\* (desync_data.entity_sort)(world)
entity_sort(w) ==
    CASE w.entity_sort = "sort_entities_ids" -> Ok(sort_entities_ids(w))
      [] w.entity_sort = "from_self"         -> sort_from_entity_map(w, TRUE)
      [] w.entity_sort = "from_other"        -> sort_from_entity_map(w, FALSE)

-----------------------------------------------------------------------------
(* The checksum pipeline *)

\* get_tracked_components, were it to leave out the filter on the registry
get_all_components(entity, w) ==
    IF ~entity_exists(w, entity) THEN PanicSeq
    ELSE Ok(SortAsc(archetype_components(w, entity)))

\* get_tracked_components(entity, world): panics on an entity the world does
\* not hold; otherwise the registered components of its archetype, sorted
get_tracked_components(entity, w) ==
    IF ~entity_exists(w, entity) THEN PanicSeq
    ELSE Ok(SortAsc({c \in archetype_components(w, entity) :
                        c \in w.serialize_fn_registry}))

\* DesyncPluginData::serialize(ptr, id): self.serialize_fn_registry[id](ptr)
serialize(w, ptr, id) ==
    IF id \in w.serialize_fn_registry THEN Ok(untyped_serialize(ptr)) ELSE PanicSeq

\* the loop body, were its check of the marker inverted
serialize_calls_inverted(w, entity) ==
    IF contains_track_desync(w, entity) THEN <<>>
    ELSE SortAsc({c \in archetype_components(w, entity) :
                     c \in w.serialize_fn_registry})

\* the component ids the body of the loop of calculate_crc hands to serialize
\* for an entity the world holds, in order: none when the entity lacks
\* TrackDesync (continue), else those of get_tracked_components
serialize_calls(w, entity) ==
    IF ~contains_track_desync(w, entity) THEN <<>>
    ELSE get_tracked_components(entity, w).val

RECURSIVE push_components(_, _, _)
\* the inner loop of calculate_crc: what it appends to crc_input
push_components(w, entity, components) ==
    IF components = <<>> THEN Ok(<<>>)
    ELSE LET c    == Head(components)
             ptr  == w.entities[entity].data[c]
             text == serialize(w, ptr, c)
             rest == push_components(w, entity, Tail(components))
         IN  IF text.ok /\ rest.ok THEN Ok(text.val \o rest.val) ELSE PanicSeq

RECURSIVE push_entities(_, _)
\* the outer loop of calculate_crc: what it appends to crc_input
push_entities(w, entities) ==
    IF entities = <<>> THEN Ok(<<>>)
    ELSE LET entity == Head(entities)
         IN  IF ~get_tracked_components(entity, w).ok THEN PanicSeq
             ELSE LET this == push_components(w, entity, serialize_calls(w, entity))
                      rest == push_entities(w, Tail(entities))
                  IN  IF this.ok /\ rest.ok THEN Ok(this.val \o rest.val)
                      ELSE PanicSeq

\* the crc_input of calculate_crc(world)
crc_input(w) ==
    LET entities == entity_sort(w)
    IN  IF entities.ok THEN push_entities(w, entities.val) ELSE PanicSeq

\* calculate_crc(world)
calculate_crc(w) ==
    LET input == crc_input(w)
    IN  IF input.ok THEN Ok(checksum(input.val)) ELSE PanicNum

\* update_crc, were it to fold the new checksum into the old one
update_crc_accumulate(w) ==
    [w EXCEPT !.Crc = Xor16(@, checksum(crc_input(w).val))]

\* update_crc, were it to write only a Crc that still holds its default
update_crc_once(w) ==
    IF w.Crc = 0 THEN [w EXCEPT !.Crc = checksum(crc_input(w).val)] ELSE w

\* update_crc(world), when calculate_crc returns
update_crc(w) == [w EXCEPT !.Crc = calculate_crc(w).val]

-----------------------------------------------------------------------------
(* State *)

VARIABLES
    world,  \* app.world
    stage,  \* "never" before the first update_crc, "fresh" when update_crc ran
            \* and nothing was written since, "stale" after a write,
            \* "panicked" when update_crc unwound
    log     \* the registrations and spawns that built the world, in order,
            \* each spawn with the values its entity holds now

vars == <<world, stage, log>>

\* entries of log
TrackOp(ty) == [op |-> "track_desync", ty |-> ty, bundle |-> <<>>]
SpawnOp(bundle) == [op |-> "spawn", ty |-> "", bundle |-> bundle]

\* the world an entry of log leads to
Apply(w, entry) ==
    IF entry.op = "spawn" THEN spawn(w, entry.bundle)
    ELSE track_desync(w, entry.ty)

RECURSIVE Replay(_)
\* the world of an app that adds the plugin and then performs l
Replay(l) ==
    IF l = <<>> THEN DesyncPlugin_build
    ELSE Apply(Replay(SubSeq(l, 1, Len(l) - 1)), l[Len(l)])

\* the number of spawns among the first i entries of l
SpawnRank(l, i) == Cardinality({j \in 1..i : l[j].op = "spawn"})

\* the position in l of the spawn of the entity-th entity
SpawnIndex(l, entity) ==
    CHOOSE i \in 1..Len(l) :
        /\ l[i].op = "spawn"
        /\ SpawnRank(l, i) = entity

\* bundle with the value of its component ty replaced
WithValue(bundle, ty, val) ==
    [i \in 1..Len(bundle) |->
        IF bundle[i].ty = ty THEN Item(ty, val) ELSE bundle[i]]

\* stage after a write to the world
Written(s) == IF s = "never" THEN "never" ELSE "stale"

-----------------------------------------------------------------------------
(* Actions: one per operation of the library or of its caller.  A repeated *)
(* registration, or a write of the value already held, leaves the world as *)
(* it is and is no step.                                                   *)

\* app.track_desync::<ty>()
TrackDesyncType(ty) ==
    /\ stage # "panicked"
    /\ component_id(world, ty) \notin world.serialize_fn_registry
    /\ world' = track_desync(world, ty)
    /\ stage' = Written(stage)
    /\ log' = Append(log, TrackOp(ty))

\* app.world.spawn(bundle), while the world holds fewer than max entities
Spawn(bundle, max) ==
    /\ stage # "panicked"
    /\ Len(world.entities) < max
    /\ world' = spawn(world, bundle)
    /\ stage' = Written(stage)
    /\ log' = Append(log, SpawnOp(bundle))

\* *app.world.get_mut::<ty>(entity).unwrap() = ty(val)
SetValue(entity, ty, val) ==
    /\ stage # "panicked"
    /\ entity_exists(world, entity)
    /\ component_id(world, ty) \in archetype_components(world, entity)
    /\ world.entities[entity].data[component_id(world, ty)] # val
    /\ world' = set_component(world, entity, ty, val)
    /\ stage' = Written(stage)
    /\ log' = [log EXCEPT ![SpawnIndex(log, entity)].bundle = WithValue(@, ty, val)]

\* app.world.insert_resource(EntityMap { entity_map: m })
InsertEntityMap(m) ==
    /\ stage # "panicked"
    /\ world.EntityMap # Some(m)
    /\ world' = insert_entity_map(world, m)
    /\ stage' = Written(stage)
    /\ UNCHANGED log

\* app.world.resource_mut::<DesyncPluginData>().entity_sort = strategy
SetEntitySort(strategy) ==
    /\ stage # "panicked"
    /\ world.entity_sort # strategy
    /\ world' = set_entity_sort(world, strategy)
    /\ stage' = Written(stage)
    /\ UNCHANGED log

\* app.update(): the First schedule runs update_crc; a panic of calculate_crc
\* unwinds before the Crc resource is written
UpdateCrc ==
    /\ stage # "panicked"
    /\ IF calculate_crc(world).ok
       THEN /\ world' = update_crc(world)
            /\ stage' = "fresh"
       ELSE /\ stage' = "panicked"
            /\ UNCHANGED world
    /\ UNCHANGED log

-----------------------------------------------------------------------------
(* Spec: an app with the default plugin, any registration order, bundles   *)
(* with and without the marker and with one or two component types.        *)

\* the bundles spawned under Spec
Bundles ==
    {<<Item(Foo, v), Item(TrackDesync, 0)>> : v \in Values}
    \cup {<<Item(Foo, v[1]), Item(Bar, v[2]), Item(TrackDesync, 0)>> :
             v \in Values \X Values}
    \cup {<<Item(Bar, 0)>>}

Init ==
    /\ world = DesyncPlugin_build
    /\ stage = "never"
    /\ log = <<>>

\* app.track_desync::<T>()
Register == \E ty \in SerializeTypes : TrackDesyncType(ty)

\* app.world.spawn(bundle)
SpawnBundle == \E bundle \in Bundles : Spawn(bundle, MaxEntities)

Next == Register \/ SpawnBundle \/ UpdateCrc

Spec == Init /\ [][Next]_vars

-----------------------------------------------------------------------------
(* SpecSetup: the same app when it registers its types at setup, before it *)
(* spawns anything.                                                        *)

\* app.track_desync::<T>() at setup
RegisterAtSetup ==
    /\ world.entities = <<>>
    /\ \E ty \in SerializeTypes : TrackDesyncType(ty)

\* app.world.spawn(bundle)
SpawnSetupBundle == \E bundle \in Bundles : Spawn(bundle, MaxSetupEntities)

NextSetup == RegisterAtSetup \/ SpawnSetupBundle \/ UpdateCrc

SpecSetup == Init /\ [][NextSetup]_vars

-----------------------------------------------------------------------------
(* SpecMap: an app built by build_app, as in the tests, whose caller       *)
(* installs a correspondence table and switches the ordering strategy.     *)

\* the bundles spawned under SpecMap
MapBundles ==
    {<<Item(Foo, v), Item(TrackDesync, 0)>> : v \in Values}
    \cup {<<Item(Foo, v)>> : v \in Values}

\* the entities a table may name: those a world may hold and one it never holds
TableEntities == 1..(MaxEntities + 1)

\* the tables a caller may install: keys among the entities of the reference
\* replica, values any entity
Tables == UNION {[keys -> TableEntities] : keys \in SUBSET (1..MaxEntities)}

\* the values of DesyncPluginData.entity_sort
Strategies == {"sort_entities_ids", "from_self", "from_other"}

InitMap ==
    /\ world = build_app
    /\ stage = "never"
    /\ log = <<TrackOp(Foo)>>

\* app.world.spawn(bundle)
SpawnMapBundle == \E bundle \in MapBundles : Spawn(bundle, MaxEntities)

\* *app.world.get_mut::<Foo>(entity).unwrap() = Foo(val)
SetFoo == \E entity \in 1..MaxEntities, val \in Values : SetValue(entity, Foo, val)

\* app.world.insert_resource(EntityMap { .. })
InsertTable == \E m \in Tables : InsertEntityMap(m)

\* entity_sort = ...
SwitchStrategy == \E strategy \in Strategies : SetEntitySort(strategy)

NextMap == SpawnMapBundle \/ SetFoo \/ InsertTable \/ SwitchStrategy \/ UpdateCrc

SpecMap == InitMap /\ [][NextMap]_vars

-----------------------------------------------------------------------------
(* SpecTest: the scenario of the tests seen from one of its two apps: the  *)
(* app is built by build_app and spawns (Foo(v), TrackDesync); its caller  *)
(* links it to the other app by a table with one entry per entity.         *)

\* the bundles spawned under SpecTest
TestBundles == {<<Item(Foo, v), Item(TrackDesync, 0)>> : v \in Values}

\* the permutations of 1..n
Perms(n) == {p \in [1..n -> 1..n] : \A a, b \in 1..n : p[a] = p[b] => a = b}

\* app.world.spawn((Foo(v), TrackDesync))
SpawnTestBundle == \E bundle \in TestBundles : Spawn(bundle, MaxEntities)

\* app.world.insert_resource(EntityMap { .. }) with a table that gives every
\* entity spawned so far one counterpart
InsertCorrespondence == \E m \in Perms(Len(world.entities)) : InsertEntityMap(m)

NextTest ==
    SpawnTestBundle \/ SetFoo \/ InsertCorrespondence \/ SwitchStrategy \/ UpdateCrc

SpecTest == InitMap /\ [][NextTest]_vars

-----------------------------------------------------------------------------
(* Other replicas *)

\* log with its spawns reordered: the k-th spawn becomes the p[k]-th
Permuted(l, p) ==
    [i \in 1..Len(l) |->
        IF l[i].op = "spawn" THEN l[SpawnIndex(l, p[SpawnRank(l, i)])] ELSE l[i]]

\* the number of spawns of a log
Spawns(l) == SpawnRank(l, Len(l))

\* the values a log gives the tracked entities, in creation order
TrackedValues(l) ==
    LET tracked == SelectSeq(l, LAMBDA entry :
                       /\ entry.op = "spawn"
                       /\ \E i \in 1..Len(entry.bundle) : entry.bundle[i].ty = TrackDesync)
    IN  [i \in 1..Len(tracked) |-> tracked[i].bundle]

\* the reference replica of a world that holds table m: its k-th entity is the
\* counterpart of the world's entity m[k], it holds the same table and sorts
\* with from_self = true
Reference(l, m) ==
    set_entity_sort(insert_entity_map(Replay(Permuted(l, m)), m), "from_self")

\* m has one entry per entity of w, each naming a different entity of w
IsCorrespondence(w, m) ==
    /\ DOMAIN m = 1..Len(w.entities)
    /\ \A k \in DOMAIN m : m[k] \in 1..Len(w.entities)
    /\ \A a, b \in DOMAIN m : m[a] = m[b] => a = b

\* the Crc resource of a replica after app.update()
CrcAfterUpdate(w) == update_crc(w).Crc

-----------------------------------------------------------------------------
(* Consistency of the model *)

\* the check value of CRC-16/IBM-SDLC: the checksum of "123456789" is 0x906e
CrcCheckValue == checksum(<<49, 50, 51, 52, 53, 54, 55, 56, 57>>) = 36974

\* the world is the one its log builds
LogBuildsWorld ==
    LET w == Replay(log)
    IN  /\ w.components = world.components
        /\ w.serialize_fn_registry = world.serialize_fn_registry
        /\ w.archetypes = world.archetypes
        /\ w.entities = world.entities

-----------------------------------------------------------------------------
(* Properties *)

\* the entities of w that carry TrackDesync
Tracked(w) == {e \in 1..Len(w.entities) : contains_track_desync(w, e)}

\* the components of entity e whose type is registered
RegisteredOn(w, e) == archetype_components(w, e) \cap w.serialize_fn_registry

\* the types registered in w
RegisteredTypes(w) == {w.components[c] : c \in w.serialize_fn_registry}

Sensitivity ==
    stage = "fresh"
    => \A e \in Tracked(world) : \A c \in RegisteredOn(world, e) :
           \A v \in Values \ {world.entities[e].data[c]} :
               world.Crc # CrcAfterUpdate([world EXCEPT !.entities[e].data[c] = v])

\* l without the spawns of entities that lack TrackDesync and, in the other
\* spawns, without the fields of a type w has not registered
Stripped(l, w) ==
    LET kept(bundle) ==
            SelectSeq(bundle, LAMBDA item :
                item.ty = TrackDesync \/ item.ty \in RegisteredTypes(w))
        marked(entry) ==
            \E i \in 1..Len(entry.bundle) : entry.bundle[i].ty = TrackDesync
        entries == SelectSeq(l, LAMBDA entry : entry.op = "spawn" => marked(entry))
    IN  [i \in 1..Len(entries) |->
            IF entries[i].op = "spawn" THEN SpawnOp(kept(entries[i].bundle))
            ELSE entries[i]]

\* C3: insensitivity to untracked data: under the default strategy the world
\* has the checksum of the world built by the same registrations and the same
\* spawns of TrackDesync entities with the same registered fields, but without
\* the fields of unregistered types and without the entities that lack
\* TrackDesync.
UntrackedInsensitive ==
    stage = "fresh" => world.Crc = CrcAfterUpdate(Replay(Stripped(log, world)))

\* the inverse of a table that is a permutation
Inverse(m) == [k \in DOMAIN m |-> CHOOSE j \in DOMAIN m : m[j] = k]

\* the other replica of a reference world that holds table m: the counterpart
\* m[k] of the reference's k-th entity is its m[k]-th entity, it holds the
\* same table and sorts with from_self = false
Counterpart(l, m) ==
    set_entity_sort(insert_entity_map(Replay(Permuted(l, Inverse(m))), m),
                    "from_other")

\* C4: correspondence-table resolution: when the table gives every entity of
\* the reference replica its counterpart with equal tracked field values, the
\* reference sorts with from_self = true and the other replica with
\* from_self = false, then the two Crc are equal after update_crc, in whatever
\* order the two replicas spawned the entities.
TableResolution ==
    (/\ stage = "fresh"
     /\ world.EntityMap # None
     /\ IsCorrespondence(world, world.EntityMap[1]))
    => /\ world.entity_sort = "from_other"
          => world.Crc = CrcAfterUpdate(Reference(log, world.EntityMap[1]))
       /\ world.entity_sort = "from_self"
          => world.Crc = CrcAfterUpdate(Counterpart(log, world.EntityMap[1]))

\* update_crc ran with from_self = false over two entities with different
\* values that the reference replica spawned in the opposite order
TableResolutionWitness ==
    /\ stage = "fresh"
    /\ world.entity_sort = "from_other"
    /\ world.EntityMap = Some(<<2, 1>>)
    /\ Len(world.entities) = 2
    /\ world.entities[1].data # world.entities[2].data

\* replica A of the scenario: Foo(0), then Foo(1)
LogA ==
    <<TrackOp(Foo),
      SpawnOp(<<Item(Foo, 0), Item(TrackDesync, 0)>>),
      SpawnOp(<<Item(Foo, 1), Item(TrackDesync, 0)>>)>>

\* replica B of the scenario: Foo(1), then Foo(0)
LogB ==
    <<TrackOp(Foo),
      SpawnOp(<<Item(Foo, 1), Item(TrackDesync, 0)>>),
      SpawnOp(<<Item(Foo, 0), Item(TrackDesync, 0)>>)>>

\* the app is replica A, sorts by ids and has run update_crc
ScenarioA ==
    /\ stage = "fresh"
    /\ world.entity_sort = "sort_entities_ids"
    /\ log = LogA

\* C5, as stated: under the default strategy replica A (Foo(0) then Foo(1))
\* and replica B (Foo(1) then Foo(0)) hold equal Crc.
ReversedSpawnEqual == ScenarioA => world.Crc = CrcAfterUpdate(Replay(LogB))

\* C5, amended: under the default strategy replica A (Foo(0) then Foo(1)) and
\* replica B (Foo(1) then Foo(0)) hold different Crc: the strategy aligns
\* entities by local creation order, so the two serialise "01" and "10".
ReversedSpawnDiffers == ScenarioA => world.Crc # CrcAfterUpdate(Replay(LogB))

\* C6: the Crc cell is 0 before the first update_crc; every update_crc leaves
\* the world as it was except for Crc, which becomes calculate_crc of the world
\* it was invoked on; nothing else writes Crc.
CrcCell ==
    [][/\ stage = "never" => world.Crc = 0
       /\ stage' = "never" => world'.Crc = 0
       /\ stage' = "fresh"
          => world' = [world EXCEPT !.Crc = calculate_crc(world).val]
       /\ world'.Crc # world.Crc => stage' = "fresh"]_vars

\* update_crc replaced the Crc of an earlier update_crc
CrcCellWitness ==
    /\ stage = "fresh"
    /\ world.Crc # 0
    /\ Len(world.entities) >= 2
    /\ world.Crc # CrcAfterUpdate(Replay(SubSeq(log, 1, Len(log) - 1)))

\* C7: a missing entity is tolerated: when the ordering strategy yields an
\* entity the world does not hold, update_crc does not unwind, and the Crc it
\* leaves is the checksum of the entities the world does hold.
MissingEntityTolerated ==
    LET entities == entity_sort(world)
        held     == SelectSeq(entities.val, LAMBDA e : entity_exists(world, e))
    IN  entities.ok
        => /\ stage # "panicked"
           /\ stage = "fresh" => world.Crc = checksum(push_entities(world, held).val)

\* every tracked entity of w is walked by the strategy of w
Covered(w) ==
    /\ entity_sort(w).ok
    /\ Tracked(w) \subseteq Range(entity_sort(w).val)

\* sensitivity where the strategy walks every tracked entity
SensitivityWhereCovered == Covered(world) => Sensitivity

\* entity e of w has no entry in table m: no key on the reference side
\* (from_self), no key mapped to it on the other side
HasNoEntry(w, m, e) ==
    IF w.entity_sort = "from_self" THEN e \notin DOMAIN m
    ELSE e \notin {m[k] : k \in DOMAIN m}

\* C8: a missing correspondence is reported: with the correspondence-table
\* strategy, from_self true or false, update_crc never returns with a Crc
\* while a tracked entity has no entry in the table.
MissingCorrespondenceReported ==
    (/\ world.entity_sort \in {"from_self", "from_other"}
     /\ world.EntityMap # None
     /\ \E e \in Tracked(world) : HasNoEntry(world, world.EntityMap[1], e))
    => stage # "fresh"

\* C9: the serializer lookup never fails: for every entity, serialize is
\* called for exactly the components that are attached to it and registered
\* when it carries TrackDesync and for none otherwise, in ascending
\* component-id order, every call finds its serializer, and calculate_crc
\* returns.
SerializerLookup ==
    /\ \A e \in 1..Len(world.entities) :
           LET calls == serialize_calls(world, e)
           IN  /\ Range(calls) = IF e \in Tracked(world)
                                 THEN RegisteredOn(world, e) ELSE {}
               /\ Len(calls) = Cardinality(Range(calls))
               /\ \A i, j \in 1..Len(calls) : i < j => calls[i] < calls[j]
               /\ \A i \in 1..Len(calls) :
                      serialize(world, world.entities[e].data[calls[i]], calls[i]).ok
    /\ calculate_crc(world).ok

\* update_crc ran over a tracked entity with a registered Foo and an
\* unregistered Bar
SerializerLookupWitness ==
    /\ stage = "fresh"
    /\ \E e \in Tracked(world) :
           /\ component_id(world, Foo) \in RegisteredOn(world, e)
           /\ component_id(world, Bar) \in archetype_components(world, e)
           /\ component_id(world, Bar) \notin world.serialize_fn_registry

=============================================================================
